---- MODULE Spec2Model ----
(***************************************************************************)
(* The persistent store of the miden client: the transaction store         *)
(* (src/src/store/transactions.rs), the note store                          *)
(* (src/src/store/notes.rs) and the tables they write.                      *)
(*                                                                          *)
(* A table is the set of its rows (no query of the store orders them);     *)
(* transaction_scripts, whose rows are nothing but a hash and its program,  *)
(* is the sequence of its rows, so that two rows of one hash stay two.  A   *)
(* nullable column holds None (<<>>) or Some(v) (<<v>>).  A store operation *)
(* is one action: it runs the whole handler on a working copy of the        *)
(* tables (the open SQLite transaction) and ends by committing the copy or  *)
(* by dropping it, as rusqlite's Transaction does.  The store has one       *)
(* caller at a time: `call` is idle between two calls and otherwise holds   *)
(* the call that has just returned, its arguments and its result.           *)
(***************************************************************************)
EXTENDS Integers, Sequences, FiniteSets, TLC

VARIABLES accounts, input_notes, transactions, transaction_scripts, call,
          user_version, store

vars == <<accounts, input_notes, transactions, transaction_scripts, call,
          user_version, store>>

tables == <<accounts, input_notes, transactions, transaction_scripts>>

\* the schema version of the database file (the number of migrations that
\* were applied to it) and the Store handle of the client ("open" when
\* Store::new has returned one, "none" before that and after its drop)
connection == <<user_version, store>>

(***************************************************************************)
(* Bounds of the model.                                                     *)
(***************************************************************************)
MaxTx == 2
MaxNote == 2
MaxAccount == 1
MaxBlock == 2
MaxScript == 1
MaxBalance == 1
MaxCandidates == 2
MaxPath == 2
MaxDigest == 2
MaxPayload == 2

\* the bits of a machine word (u64, i64) in the model
WordBits == 3

TxIds == 1..MaxTx
NoteIds == 1..MaxNote
AccountIds == 1..MaxAccount
BlockNums == 1..MaxBlock
ScriptHashes == 1..MaxScript
Digests == 1..MaxDigest

(***************************************************************************)
(* Option<T> and Result<T, StoreError>.                                     *)
(***************************************************************************)
None == <<>>

Some(v) == <<v>>

IsSome(o) == o # <<>>

Unwrap(o) == o[1]

Ok(w) == [db |-> w, err |-> "Ok"]

Err(w, kind) == [db |-> w, err |-> kind]

\* the `?` operator: the result of the next step (on the working copy r.db)
\* counts only if the previous step returned Ok
Then(r, next) == IF r.err # "Ok" THEN r ELSE next

\* the sequences over S of length at most n
SeqsUpTo(S, n) == UNION {[1..k -> S] : k \in 0..n}

Contains(s, x) == \E i \in 1..Len(s) : s[i] = x

\* the tables as one value: the content of the database file, or of the
\* working copy of an open SQLite transaction
DB == [accounts |-> accounts, input_notes |-> input_notes,
       transactions |-> transactions, transaction_scripts |-> transaction_scripts]

(***************************************************************************)
(* Engine faults.  Every statement the store executes can fail in the       *)
(* storage engine (I/O error, busy, disk full); `fault` names the statement *)
(* of the call that does, if any.                                           *)
(***************************************************************************)
NoFault == <<"none", 0>>

Faults == {NoFault, <<"begin", 0>>, <<"script", 0>>, <<"transaction", 0>>,
           <<"storage", 0>>, <<"vault", 0>>, <<"record", 0>>, <<"commit", 0>>}
          \cup {<<"note", k>> : k \in 1..MaxNote}
          \cup {<<"update", k>> : k \in 1..MaxCandidates}

(***************************************************************************)
(* Domain objects (the objects crate).  A note is identified by its         *)
(* content: the number n stands for the note's script, inputs, assets,      *)
(* serial number and metadata, from which its id and its nullifier are      *)
(* derived; the two digests are different values.                           *)
(***************************************************************************)
Notes == NoteIds

NoteId(n) == n

Nullifier(n) == n + MaxNote

\* NoteMetadata: the sender and the tag of the note, two field elements, each
\* a full machine word (the tag with its highest bit set)
NoteSender(n) == n

NoteTag(n) == 2 ^ WordBits - n

\* Note::from_parts: the note of these parts; 0 is a note that no caller of
\* the store has passed to it
NoteFromParts(core, sender, tag) ==
    IF core \in Notes /\ NoteSender(core) = sender /\ NoteTag(core) = tag THEN core ELSE 0

\* `as i64` of a u64 and `as u64` of an i64: the same bits
AsI64(v) == IF v >= 2 ^ (WordBits - 1) THEN v - 2 ^ WordBits ELSE v

AsU64(x) == x % (2 ^ WordBits)

\* Digest::to_string (hex) and Digest::try_from(String)
DigestToString(d) == <<"0x", d>>

DigestTryFrom(str) ==
    IF Len(str) = 2 /\ str[1] = "0x"
    THEN [err |-> "Ok", digest |-> str[2]]
    ELSE [err |-> "HexParseError", digest |-> 0]

\* the lists of distinct notes (or note ids), one for each set of them
NoteLists == {s \in SeqsUpTo(Notes, MaxNote) : \A i, j \in 1..Len(s) : i < j => s[i] < s[j]}

\* MerklePath: the nodes from the leaf to the root
Paths == SeqsUpTo(Digests, MaxPath)

\* NodeIndex::new(depth, value): the value has at most depth bits
NodeIndexValid(depth, value) == value < 2 ^ depth

\* NoteInclusionProof: the block of the note, the block's sub hash and note
\* root, the index of the note in the block's note tree and its merkle path
Proofs ==
    UNION {[block_num : BlockNums, sub_hash : Digests, note_root : Digests,
            node_index : {i \in 0..(2 ^ Len(p) - 1) : NodeIndexValid(Len(p), i)},
            note_path : {p}] : p \in Paths}

\* InputNoteRecord::new
InputNoteRecords == [note : Notes, inclusion_proof : {None} \cup {Some(p) : p \in Proofs}]

\* the records of notes at the root of a one-leaf note tree
ShallowNoteRecords ==
    {rec \in InputNoteRecords :
        IsSome(rec.inclusion_proof) =>
            /\ Unwrap(rec.inclusion_proof).note_path = <<>>
            /\ Unwrap(rec.inclusion_proof).sub_hash = 1
            /\ Unwrap(rec.inclusion_proof).note_root = 1}

\* impl From<Note> for InputNoteRecord
InputNoteRecordFromNote(n) == [note |-> n, inclusion_proof |-> None]

(***************************************************************************)
(* An account's state is one number (what its storage, vault and nonce      *)
(* commit to).  Its three persisted components each carry the state they    *)
(* were written for.  An account delta adds to the state; it cannot be      *)
(* applied when the result leaves 0..MaxBalance (an asset that is not in    *)
(* the vault, an amount overflow).                                          *)
(***************************************************************************)
PersistedAccount(b) == [storage |-> b, vault |-> b, record |-> b]

\* Account::apply_delta
apply_delta(account, delta) ==
    IF account + delta \in 0..MaxBalance
    THEN [err |-> "Ok", account |-> account + delta]
    ELSE [err |-> "AccountError", account |-> account]

\* Store::get_account_by_id
get_account_by_id(w, account_id) ==
    IF IsSome(w.accounts[account_id])
    THEN [err |-> "Ok", account |-> Unwrap(w.accounts[account_id]).record]
    ELSE [err |-> "AccountDataNotFound", account |-> 0]

AccountComponent(w, account_id, field, value) ==
    [w EXCEPT !.accounts[account_id] =
        Some([(IF IsSome(@) THEN Unwrap(@) ELSE PersistedAccount(value)) EXCEPT ![field] = value])]

\* Store::insert_account_storage
insert_account_storage(w, account_id, account, fault) ==
    IF fault = <<"storage", 0>> THEN Err(w, "DatabaseError")
    ELSE Ok(AccountComponent(w, account_id, "storage", account))

\* Store::insert_account_asset_vault
insert_account_asset_vault(w, account_id, account, fault) ==
    IF fault = <<"vault", 0>> THEN Err(w, "DatabaseError")
    ELSE Ok(AccountComponent(w, account_id, "vault", account))

\* Store::insert_account_record
insert_account_record(w, account_id, account, fault) ==
    IF fault = <<"record", 0>> THEN Err(w, "DatabaseError")
    ELSE Ok(AccountComponent(w, account_id, "record", account))

(***************************************************************************)
(* The atomic unit: rusqlite's Transaction.  Connection::transaction opens  *)
(* it, Transaction::commit makes the working copy the database, and a       *)
(* Transaction that is dropped without a commit (every early return of      *)
(* `?`) rolls back: the database is what it was.                            *)
(***************************************************************************)
begin_transaction(db, fault) ==
    IF fault = <<"begin", 0>> THEN Err(db, "DatabaseError") ELSE Ok(db)

commit(w, fault) ==
    IF fault = <<"commit", 0>> THEN Err(w, "DatabaseError") ELSE Ok(w)

NoRollbackEndTransaction(db, r) == r

\* Transaction::drop
EndTransaction(db, r) == IF r.err = "Ok" THEN r ELSE Err(db, r.err)

(***************************************************************************)
(* Note store (src/src/store/notes.rs).                                     *)
(***************************************************************************)
\* NoteInclusionProof::new: the index must be one of a tree as deep as the
\* path is long
NoteInclusionProofNew(block_num, sub_hash, note_root, index, note_path) ==
    [err |-> IF NodeIndexValid(Len(note_path), index) THEN "Ok" ELSE "NoteError",
     proof |-> [block_num |-> block_num, sub_hash |-> sub_hash, note_root |-> note_root,
                node_index |-> index, note_path |-> note_path]]

PersistedPathWithoutLast(note_path) ==
    IF Len(note_path) > 0 THEN SubSeq(note_path, 1, Len(note_path) - 1) ELSE note_path

\* the path that serialize_input_note persists: the first node is removed
PersistedPath(note_path) == IF Len(note_path) > 0 THEN Tail(note_path) ELSE note_path

serialize_input_note_all_pending(rec) ==
    LET n == rec.note
        proof == Unwrap(rec.inclusion_proof)
        new == NoteInclusionProofNew(proof.block_num, proof.sub_hash, proof.note_root,
                                     proof.node_index, PersistedPath(proof.note_path))
        columns(inclusion_proof, status, commit_height) ==
            [note_id |-> NoteId(n), nullifier |-> DigestToString(Nullifier(n)), note |-> n,
             sender_id |-> AsI64(NoteSender(n)), tag |-> AsI64(NoteTag(n)),
             inclusion_proof |-> inclusion_proof, status |-> status,
             commit_height |-> commit_height]
    IN IF IsSome(rec.inclusion_proof)
       THEN [err |-> IF new.err = "Ok" THEN "Ok" ELSE "Panic",
             row |-> columns(Some(new.proof), "pending", proof.block_num)]
       ELSE [err |-> "Ok", row |-> columns(None, "pending", 0)]

\* serialize_input_note: the row of the input_notes table (column note: the
\* script, inputs, vault and serial number), or the panic of `unwrap`
serialize_input_note(rec) ==
    LET n == rec.note
        proof == Unwrap(rec.inclusion_proof)
        new == NoteInclusionProofNew(proof.block_num, proof.sub_hash, proof.note_root,
                                     proof.node_index, PersistedPath(proof.note_path))
        columns(inclusion_proof, status, commit_height) ==
            [note_id |-> NoteId(n), nullifier |-> DigestToString(Nullifier(n)), note |-> n,
             sender_id |-> AsI64(NoteSender(n)), tag |-> AsI64(NoteTag(n)),
             inclusion_proof |-> inclusion_proof, status |-> status,
             commit_height |-> commit_height]
    IN IF IsSome(rec.inclusion_proof)
       THEN [err |-> IF new.err = "Ok" THEN "Ok" ELSE "Panic",
             row |-> columns(Some(new.proof), "committed", proof.block_num)]
       ELSE [err |-> "Ok", row |-> columns(None, "pending", 0)]

\* input_notes.note_id is the primary key of the table
NoteIdExists(w, note_id) ==
    \E row \in w.input_notes : row.note_id = note_id

insert_input_note_tx_or_replace(w, rec, fault, k) ==
    LET s == serialize_input_note(rec) IN
    IF s.err # "Ok" THEN Err(w, s.err)
    ELSE IF fault = <<"note", k>> THEN Err(w, "QueryError")
    ELSE Ok([w EXCEPT !.input_notes =
                {row \in @ : row.note_id # s.row.note_id} \cup {s.row}])

\* Store::insert_input_note_tx, as the k-th note insert of the call
insert_input_note_tx(w, rec, fault, k) ==
    LET s == serialize_input_note(rec) IN
    IF s.err # "Ok" THEN Err(w, s.err)
    ELSE IF fault = <<"note", k>> \/ NoteIdExists(w, s.row.note_id)
    THEN Err(w, "QueryError")
    ELSE Ok([w EXCEPT !.input_notes = @ \cup {s.row}])

\* Store::insert_input_note
insert_input_note_result(db, rec, fault) ==
    LET r0 == begin_transaction(db, fault)
        r1 == Then(r0, insert_input_note_tx(r0.db, rec, fault, 1))
        r2 == Then(r1, commit(r1.db, fault))
    IN EndTransaction(db, r2)

\* InputNoteFilter
InputNoteFilters == {"All", "Consumed", "Committed", "Pending"}

QueryInputNotesNotConsumed(notes, filter) ==
    CASE filter = "All" -> notes
      [] filter = "Committed" -> {row \in notes : row.status = "committed"}
      [] filter = "Consumed" -> {row \in notes : row.status = "consumed"}
      [] filter = "Pending" -> {row \in notes : row.status # "consumed"}

\* InputNoteFilter::to_query: the rows the query selects
QueryInputNotes(notes, filter) ==
    CASE filter = "All" -> notes
      [] filter = "Committed" -> {row \in notes : row.status = "committed"}
      [] filter = "Consumed" -> {row \in notes : row.status = "consumed"}
      [] filter = "Pending" -> {row \in notes : row.status = "pending"}

parse_input_note_signed(row) ==
    [note |-> NoteFromParts(row.note, row.sender_id, row.tag),
     inclusion_proof |-> row.inclusion_proof]

\* parse_input_note_columns and parse_input_note: the record of a row
parse_input_note(row) ==
    [note |-> NoteFromParts(row.note, AsU64(row.sender_id), AsU64(row.tag)),
     inclusion_proof |-> row.inclusion_proof]

\* Store::get_input_notes: the records of the returned Vec
get_input_notes_result(notes, filter) ==
    [err |-> "Ok", records |-> {parse_input_note(row) : row \in QueryInputNotes(notes, filter)}]

get_input_note_by_id_any_row(notes, note_id) ==
    IF notes = {}
    THEN [err |-> "InputNoteNotFound", id |-> note_id, records |-> {}]
    ELSE [err |-> "Ok", id |-> 0, records |-> {parse_input_note(CHOOSE row \in notes : TRUE)}]

\* Store::get_input_note_by_id: the record of the first row of the query, or
\* InputNoteNotFound(note_id)
get_input_note_by_id_result(notes, note_id) ==
    LET rows == {row \in notes : row.note_id = note_id} IN
    IF rows = {}
    THEN [err |-> "InputNoteNotFound", id |-> note_id, records |-> {}]
    ELSE [err |-> "Ok", id |-> 0, records |-> {parse_input_note(CHOOSE row \in rows : TRUE)}]

get_unspent_input_note_nullifiers_of_all(notes) ==
    [err |-> "Ok", records |-> {DigestTryFrom(row.nullifier).digest : row \in notes}]

\* Store::get_unspent_input_note_nullifiers: the digests of the returned Vec
get_unspent_input_note_nullifiers_result(notes) ==
    LET parsed == {DigestTryFrom(row.nullifier) :
                      row \in {r \in notes : r.status = "committed"}}
    IN IF \E d \in parsed : d.err # "Ok"
       THEN [err |-> "HexParseError", records |-> {}]
       ELSE [err |-> "Ok", records |-> {d.digest : d \in parsed}]

(***************************************************************************)
(* Transaction results.  A transaction id is the digest of the executed     *)
(* transaction's account states and of its input and output notes, so the   *)
(* id determines them and the account delta between the two states; the     *)
(* transaction script, the block number and the created notes (distinct     *)
(* notes) come with the result.                                             *)
(***************************************************************************)
TxAccountId(t) == ((t - 1) % MaxAccount) + 1

TxInitialAccountHash(t) == 2 * t - 1

TxFinalAccountHash(t) == 2 * t

TxAccountDelta(t) == IF t % 2 = 1 THEN 1 ELSE -1

\* the input notes of the executed transaction, in order
TxInputNotes(t) == <<(t % MaxNote) + 1>>

\* the ids of the output notes of the executed transaction
TxOutputNotes(t) == {((t - 1) % MaxNote) + 1} \cup (IF t % 2 = 0 THEN {1} ELSE {})

\* TransactionScript: the hash is the digest of the program
TxScript(h, t) == [hash |-> h, program |-> h + MaxScript, inputs |-> t]

\* the transaction results with transaction id t
ResultsOf(t) ==
    {[id |-> t, account_id |-> TxAccountId(t),
      initial_account |-> TxInitialAccountHash(t), final_account |-> TxFinalAccountHash(t),
      input_notes |-> TxInputNotes(t), output_notes |-> TxOutputNotes(t),
      account_delta |-> TxAccountDelta(t), created_notes |-> c,
      transaction_script |-> s, block_num |-> b] :
        c \in NoteLists,
        s \in {None} \cup {Some(TxScript(h, t)) : h \in ScriptHashes}, b \in BlockNums}

TransactionResults == UNION {ResultsOf(t) : t \in TxIds}

(***************************************************************************)
(* Transaction store (src/src/store/transactions.rs).                       *)
(***************************************************************************)
serialize_transaction_data_committed(txr) ==
    [id |-> txr.id,
     account_id |-> txr.account_id,
     init_account_state |-> txr.initial_account,
     final_account_state |-> txr.final_account,
     input_notes |-> [i \in 1..Len(txr.input_notes) |-> NoteId(txr.input_notes[i])],
     output_notes |-> txr.output_notes,
     script_program |-> IF IsSome(txr.transaction_script)
                        THEN Some(Unwrap(txr.transaction_script).program) ELSE None,
     script_hash |-> IF IsSome(txr.transaction_script)
                     THEN Some(Unwrap(txr.transaction_script).hash) ELSE None,
     script_inputs |-> IF IsSome(txr.transaction_script)
                       THEN Some(Unwrap(txr.transaction_script).inputs) ELSE None,
     block_num |-> txr.block_num,
     commit_height |-> Some(txr.block_num)]

\* serialize_transaction_data: the columns of the transactions row and the
\* program of the script row
serialize_transaction_data(txr) ==
    LET script == txr.transaction_script IN
    [id |-> txr.id,
     account_id |-> txr.account_id,
     init_account_state |-> txr.initial_account,
     final_account_state |-> txr.final_account,
     input_notes |-> [i \in 1..Len(txr.input_notes) |-> NoteId(txr.input_notes[i])],
     output_notes |-> txr.output_notes,
     script_program |-> IF IsSome(script) THEN Some(Unwrap(script).program) ELSE None,
     script_hash |-> IF IsSome(script) THEN Some(Unwrap(script).hash) ELSE None,
     script_inputs |-> IF IsSome(script) THEN Some(Unwrap(script).inputs) ELSE None,
     block_num |-> txr.block_num,
     commit_height |-> None]

\* the columns of the INSERT_TRANSACTION_QUERY
TransactionRow(s) ==
    [id |-> s.id, account_id |-> s.account_id,
     init_account_state |-> s.init_account_state,
     final_account_state |-> s.final_account_state,
     input_notes |-> s.input_notes, output_notes |-> s.output_notes,
     script_hash |-> s.script_hash, script_inputs |-> s.script_inputs,
     block_num |-> s.block_num, commit_height |-> s.commit_height]

\* transaction_scripts.script_hash is the primary key of the table
ScriptHashExists(w, hash) ==
    \E i \in 1..Len(w.transaction_scripts) : w.transaction_scripts[i].script_hash = hash

\* transactions.id is the primary key of the table
TransactionIdExists(w, id) ==
    \E row \in w.transactions : row.id = id

InsertTransactionScriptNoIgnore(w, hash, program, fault) ==
    IF fault = <<"script", 0>> \/ ScriptHashExists(w, hash) THEN Err(w, "DatabaseError")
    ELSE Ok([w EXCEPT !.transaction_scripts =
                Append(@, [script_hash |-> hash, program |-> program])])

\* INSERT_TRANSACTION_SCRIPT_QUERY: INSERT OR IGNORE
InsertTransactionScript(w, hash, program, fault) ==
    IF fault = <<"script", 0>> THEN Err(w, "DatabaseError")
    ELSE IF ScriptHashExists(w, hash) THEN Ok(w)
    ELSE Ok([w EXCEPT !.transaction_scripts =
                Append(@, [script_hash |-> hash, program |-> program])])

\* INSERT_TRANSACTION_QUERY
InsertTransaction(w, row, fault) ==
    IF fault = <<"transaction", 0>> \/ TransactionIdExists(w, row.id)
    THEN Err(w, "DatabaseError")
    ELSE Ok([w EXCEPT !.transactions = @ \cup {row}])

insert_proven_transaction_data_without_script(w, txr, fault) ==
    InsertTransaction(w, TransactionRow(serialize_transaction_data(txr)), fault)

\* Store::insert_proven_transaction_data
insert_proven_transaction_data(w, txr, fault) ==
    LET s == serialize_transaction_data(txr)
        r1 == IF IsSome(s.script_hash)
              THEN InsertTransactionScript(w, Unwrap(s.script_hash),
                                           Unwrap(s.script_program), fault)
              ELSE Ok(w)
    IN Then(r1, InsertTransaction(r1.db, TransactionRow(s), fault))

RECURSIVE InsertCreatedNotesButLast(_, _, _, _)
InsertCreatedNotesButLast(w, created, k, fault) ==
    IF k >= Len(created) THEN Ok(w)
    ELSE LET r == insert_input_note_tx(w, created[k], fault, k)
         IN Then(r, InsertCreatedNotesButLast(r.db, created, k + 1, fault))

\* the loop over the created notes of Store::insert_transaction_data
RECURSIVE InsertCreatedNotes(_, _, _, _)
InsertCreatedNotes(w, created, k, fault) ==
    IF k > Len(created) THEN Ok(w)
    ELSE LET r == insert_input_note_tx(w, created[k], fault, k)
         IN Then(r, InsertCreatedNotes(r.db, created, k + 1, fault))

LoadAccountOrDefault(db, txr) ==
    IF get_account_by_id(db, txr.account_id).err = "Ok"
    THEN get_account_by_id(db, txr.account_id)
    ELSE [err |-> "Ok", account |-> 0]

\* Store::insert_transaction_data: the account of the transaction is loaded
LoadAccount(db, txr) == get_account_by_id(db, txr.account_id)

ApplyAccountDeltaIgnoringError(account, account_delta) ==
    [err |-> "Ok", account |-> apply_delta(account, account_delta).account]

\* Store::insert_transaction_data: the delta is applied to the loaded account
ApplyAccountDelta(account, account_delta) == apply_delta(account, account_delta)

AccountDataWithoutVault(w, account_id, account, fault) ==
    LET r1 == insert_account_storage(w, account_id, account, fault)
    IN Then(r1, insert_account_record(r1.db, account_id, account, fault))

\* Store::insert_transaction_data: the writes of "Account Data"
AccountData(w, account_id, account, fault) ==
    LET r1 == insert_account_storage(w, account_id, account, fault)
        r2 == Then(r1, insert_account_asset_vault(r1.db, account_id, account, fault))
    IN Then(r2, insert_account_record(r2.db, account_id, account, fault))

\* Store::insert_transaction_data
insert_transaction_data_result(db, txr, fault) ==
    LET found == LoadAccount(db, txr)
        applied == ApplyAccountDelta(found.account, txr.account_delta)
        account == applied.account
        created == [i \in 1..Len(txr.created_notes) |->
                       InputNoteRecordFromNote(txr.created_notes[i])]
        r0 == begin_transaction(db, fault)
        r1 == Then(r0, insert_proven_transaction_data(r0.db, txr, fault))
        r2 == Then(r1, AccountData(r1.db, txr.account_id, account, fault))
        r3 == Then(r2, InsertCreatedNotes(r2.db, created, 1, fault))
        r4 == Then(r3, commit(r3.db, fault))
    IN IF found.err # "Ok" THEN Err(db, found.err)
       ELSE IF applied.err # "Ok" THEN Err(db, applied.err)
       ELSE EndTransaction(db, r4)

\* TransactionRecord: what mark_transactions_as_committed_by_note_id reads of it
TransactionRecords == {[id |-> t, output_notes |-> TxOutputNotes(t)] : t \in TxIds}

UpdateCommitHeightEveryRow(txs, id, block_num) ==
    {[row EXCEPT !.commit_height = Some(block_num)] : row \in txs}

UpdateCommitHeightAndBlockNum(txs, id, block_num) ==
    {IF row.id = id
     THEN [row EXCEPT !.commit_height = Some(block_num), !.block_num = block_num]
     ELSE row : row \in txs}

\* "UPDATE transactions set commit_height=? where id=?": the table after the
\* statement
UpdateCommitHeight(txs, id, block_num) ==
    {IF row.id = id THEN [row EXCEPT !.commit_height = Some(block_num)] ELSE row : row \in txs}

\* the number of rows the statement changed
RowsChanged(txs, id) == Cardinality({row \in txs : row.id = id})

UpdatedTransactionsUnfiltered(uncommitted_transactions, note_ids) ==
    uncommitted_transactions

\* the filter of mark_transactions_as_committed_by_note_id
UpdatedTransactions(uncommitted_transactions, note_ids) ==
    SelectSeq(uncommitted_transactions,
              LAMBDA t : \E n \in t.output_notes : Contains(note_ids, n))

RECURSIVE MarkLoopSkippingFailedUpdate(_, _, _, _, _, _)
MarkLoopSkippingFailedUpdate(w, updated, k, rows, block_num, fault) ==
    IF k > Len(updated) THEN [db |-> w, err |-> "Ok", rows |-> rows]
    ELSE IF fault = <<"update", k>>
    THEN MarkLoopSkippingFailedUpdate(w, updated, k + 1, rows, block_num, fault)
    ELSE MarkLoopSkippingFailedUpdate(
             [w EXCEPT !.transactions = UpdateCommitHeight(@, updated[k].id, block_num)],
             updated, k + 1, rows + RowsChanged(w.transactions, updated[k].id),
             block_num, fault)

\* the loop of mark_transactions_as_committed_by_note_id over the k-th and
\* later updated transactions; rows counts the rows changed so far
RECURSIVE MarkLoop(_, _, _, _, _, _)
MarkLoop(w, updated, k, rows, block_num, fault) ==
    IF k > Len(updated) THEN [db |-> w, err |-> "Ok", rows |-> rows]
    ELSE IF fault = <<"update", k>> THEN [db |-> w, err |-> "DatabaseError", rows |-> 0]
    ELSE MarkLoop([w EXCEPT !.transactions = UpdateCommitHeight(@, updated[k].id, block_num)],
                  updated, k + 1, rows + RowsChanged(w.transactions, updated[k].id),
                  block_num, fault)

\* Store::mark_transactions_as_committed_by_note_id, on the working copy of
\* the caller's transaction
mark_transactions_as_committed_by_note_id(w, uncommitted_transactions, note_ids, block_num, fault) ==
    MarkLoop(w, UpdatedTransactions(uncommitted_transactions, note_ids), 1, 0, block_num, fault)

\* the atomic unit of the sync caller for one block: it inserts a note of
\* the block with its inclusion proof, marks the transactions of the block's
\* notes in the same unit and commits; step is the statement that failed
apply_block(db, rec, candidates, note_ids, block_num, fault) ==
    LET r0 == begin_transaction(db, fault)
        r1 == Then(r0, insert_input_note_tx(r0.db, rec, fault, 1))
        m == mark_transactions_as_committed_by_note_id(r1.db, candidates, note_ids,
                                                       block_num, fault)
        r2 == Then(r1, Err(m.db, m.err))
        r3 == Then(r2, commit(r2.db, fault))
        r == EndTransaction(db, r3)
    IN [db |-> r.db, err |-> r.err,
        rows |-> IF r2.err = "Ok" THEN m.rows ELSE 0,
        step |-> IF r3.err = "Ok" THEN NoFault
                 ELSE IF r1.err = "Ok" /\ r2.err # "Ok" THEN <<"mark", fault[2]>>
                 ELSE fault]

\* TransactionFilter
TransactionFilters == {"All", "Uncomitted"}

QueryTransactionsUnfiltered(txs, scripts, filter) ==
    {[row |-> row,
      script_program |->
          IF IsSome(row.script_hash)
             /\ \E i \in 1..Len(scripts) : scripts[i].script_hash = Unwrap(row.script_hash)
          THEN Some(scripts[CHOOSE i \in 1..Len(scripts) :
                               scripts[i].script_hash = Unwrap(row.script_hash)].program)
          ELSE None] : row \in txs}

\* TransactionFilter::to_query: the rows the query selects, each LEFT JOINed
\* with the program of the script row of its script_hash
QueryTransactions(txs, scripts, filter) ==
    LET selected == IF filter = "All" THEN txs
                    ELSE {row \in txs : row.commit_height = None}
        program(row) ==
            IF IsSome(row.script_hash)
               /\ \E i \in 1..Len(scripts) : scripts[i].script_hash = Unwrap(row.script_hash)
            THEN Some(scripts[CHOOSE i \in 1..Len(scripts) :
                                 scripts[i].script_hash = Unwrap(row.script_hash)].program)
            ELSE None
    IN {[row |-> row, script_program |-> program(row)] : row \in selected}

\* parse_transaction: the record of a joined row, or the panic of `expect`
parse_transaction(joined) ==
    LET row == joined.row
        panics == IsSome(row.script_hash)
                  /\ (joined.script_program = None \/ row.script_inputs = None)
        transaction_script ==
            IF IsSome(row.script_hash) /\ ~panics
            THEN Some([hash |-> Unwrap(row.script_hash),
                       program |-> Unwrap(joined.script_program),
                       inputs |-> Unwrap(row.script_inputs)])
            ELSE None
        transaction_status ==
            IF row.commit_height = None THEN <<"Pending">>
            ELSE <<"Committed", Unwrap(row.commit_height)>>
    IN [err |-> IF panics THEN "Panic" ELSE "Ok",
        record |-> [id |-> row.id, account_id |-> row.account_id,
                    init_account_state |-> row.init_account_state,
                    final_account_state |-> row.final_account_state,
                    input_note_nullifiers |-> row.input_notes,
                    output_notes |-> row.output_notes,
                    transaction_script |-> transaction_script,
                    block_num |-> row.block_num,
                    transaction_status |-> transaction_status]]

\* Store::get_transactions: the records of the returned Vec
get_transactions_result(txs, scripts, filter) ==
    LET parsed == {parse_transaction(j) : j \in QueryTransactions(txs, scripts, filter)}
    IN IF \E p \in parsed : p.err # "Ok"
       THEN [err |-> "Panic", records |-> {}]
       ELSE [err |-> "Ok", records |-> {p.record : p \in parsed}]

(***************************************************************************)
(* Opening the store (src/src/store/mod.rs, src/src/store/migrations.rs).   *)
(* The database file is its schema version and its tables; a file of        *)
(* version 0 has no table.                                                  *)
(***************************************************************************)
\* MIGRATIONS: the migrations of the store, in order
Migrations == <<"store.sql">>

File == [user_version |-> user_version, db |-> DB]

OpenFaults == {NoFault, <<"open", 0>>} \cup {<<"migration", k>> : k \in 1..Len(Migrations)}

\* Connection::open
Connection_open(file, fault) ==
    [err |-> IF fault = <<"open", 0>> THEN "DatabaseError" ELSE "Ok", file |-> file]

\* Migrations::to_latest: the migrations after the file's version are
\* applied in order, each in a transaction of its own that also sets the
\* version; a file of a later version than the last migration is refused
RECURSIVE to_latest(_, _)
to_latest(file, fault) ==
    IF file.user_version > Len(Migrations) THEN [err |-> "DatabaseError", file |-> file]
    ELSE IF file.user_version = Len(Migrations) THEN [err |-> "Ok", file |-> file]
    ELSE IF fault = <<"migration", file.user_version + 1>>
    THEN [err |-> "DatabaseError", file |-> file]
    ELSE to_latest([file EXCEPT !.user_version = @ + 1], fault)

\* update_to_latest
update_to_latest(file, fault) == to_latest(file, fault)

Store_new_unchecked(file, fault) ==
    LET opened == Connection_open(file, fault)
        updated == update_to_latest(opened.file, fault)
    IN IF opened.err # "Ok" THEN [err |-> opened.err, file |-> opened.file, store |-> "none"]
       ELSE [err |-> "Ok", file |-> updated.file, store |-> "open"]

\* Store::new: the handle is returned only when both steps succeed
Store_new(file, fault) ==
    LET opened == Connection_open(file, fault)
        updated == update_to_latest(opened.file, fault)
    IN IF opened.err # "Ok" THEN [err |-> opened.err, file |-> opened.file, store |-> "none"]
       ELSE IF updated.err # "Ok"
       THEN [err |-> updated.err, file |-> updated.file, store |-> "none"]
       ELSE [err |-> "Ok", file |-> updated.file, store |-> "open"]

(***************************************************************************)
(* Errors (src/src/errors.rs).  An error is its kind and its payload (an    *)
(* id, a block number, a root, the text of a message).                      *)
(***************************************************************************)
Payloads == 1..MaxPayload

\* rusqlite::Error: the variants that From<rusqlite::Error> names, and the
\* variants of its last arm
RusqliteParsingGroup ==
    {"FromSqlConversionFailure", "IntegralValueOutOfRange", "InvalidColumnIndex",
     "InvalidColumnType"}

RusqliteQueryGroup ==
    {"InvalidParameterName", "InvalidColumnName", "StatementChangedRows",
     "ExecuteReturnedResults", "InvalidQuery", "MultipleStatement",
     "InvalidParameterCount", "QueryReturnedNoRows"}

RusqliteOtherGroup ==
    {"SqliteFailure", "SqliteSingleThreadedMode", "Utf8Error", "NulError", "InvalidPath",
     "ToSqlConversionFailure"}

RusqliteErrors ==
    [kind : RusqliteParsingGroup \cup RusqliteQueryGroup \cup RusqliteOtherGroup,
     payload : Payloads]

\* enum StoreError
StoreErrorKinds ==
    {"AssetVaultError", "AccountCodeDataNotFound", "AccountDataNotFound", "AccountError",
     "AccountHashMismatch", "AccountStorageNotFound", "BlockHeaderNotFound",
     "ChainMmrNodeNotFound", "DatabaseError", "DataDeserializationError", "HexParseError",
     "InputNoteNotFound", "InputSerializationError", "JsonDataDeserializationError",
     "MmrError", "NoteTagAlreadyTracked", "ParsingError", "QueryError",
     "RpcTypeConversionFailure", "TransactionScriptError", "VaultDataNotFound"}

StoreErrors == [kind : StoreErrorKinds, payload : Payloads]

\* to_string of an error: the text names the kind and shows the payload
ErrorToString(e) == <<e.kind, e.payload>>

\* impl From<rusqlite::Error> for StoreError
StoreErrorFromRusqlite(value) ==
    CASE value.kind \in RusqliteParsingGroup ->
            [kind |-> "ParsingError", payload |-> ErrorToString(value)]
      [] value.kind \in RusqliteQueryGroup ->
            [kind |-> "QueryError", payload |-> ErrorToString(value)]
      [] OTHER -> [kind |-> "DatabaseError", payload |-> ErrorToString(value)]

DataStoreErrorFromStoreErrorNoNote(value) ==
    CASE value.kind = "AccountDataNotFound" ->
            [kind |-> "AccountNotFound", payload |-> value.payload]
      [] value.kind = "BlockHeaderNotFound" ->
            [kind |-> "BlockNotFound", payload |-> value.payload]
      [] OTHER -> [kind |-> "InternalError", payload |-> ErrorToString(value)]

\* impl From<StoreError> for DataStoreError
DataStoreErrorFromStoreError(value) ==
    CASE value.kind = "AccountDataNotFound" ->
            [kind |-> "AccountNotFound", payload |-> value.payload]
      [] value.kind = "BlockHeaderNotFound" ->
            [kind |-> "BlockNotFound", payload |-> value.payload]
      [] value.kind = "InputNoteNotFound" ->
            [kind |-> "NoteNotFound", payload |-> value.payload]
      [] OTHER -> [kind |-> "InternalError", payload |-> ErrorToString(value)]

(***************************************************************************)
(* The state machine.                                                       *)
(***************************************************************************)
\* the record of a call: the operation, its arguments, what it returned
\* (kind: Ok or the StoreError kind; rows; records, which for an insert are
\* the records it persisted), whether its atomic unit was committed and
\* whether the engine was made to fail in it
Call(op, kind) ==
    [op |-> op, kind |-> kind, committed |-> FALSE, faulted |-> FALSE, id |-> 0,
     notes |-> <<>>, candidates |-> <<>>, block_num |-> 0, rows |-> 0, records |-> {},
     step |-> NoFault]

Idle == Call("idle", "Ok")

\* Store::new on an empty database file
Init ==
    /\ accounts = [a \in AccountIds |-> None]
    /\ input_notes = {}
    /\ transactions = {}
    /\ transaction_scripts = <<>>
    /\ call = Idle
    /\ user_version = Len(Migrations)
    /\ store = "open"

SetTables(w) ==
    /\ accounts' = w.accounts
    /\ input_notes' = w.input_notes
    /\ transactions' = w.transactions
    /\ transaction_scripts' = w.transaction_scripts
    /\ UNCHANGED connection

\* the client's insert_account: a new account is persisted with its
\* storage, vault and record
InsertAccount(account_id, account) ==
    /\ call = Idle
    /\ accounts[account_id] = None
    /\ accounts' = [accounts EXCEPT ![account_id] = Some(PersistedAccount(account))]
    /\ UNCHANGED <<input_notes, transactions, transaction_scripts, connection>>
    /\ call' = [Call("insert_account", "Ok") EXCEPT !.committed = TRUE, !.id = account_id]

InsertInputNote(rec, fault) ==
    LET r == insert_input_note_result(DB, rec, fault) IN
    /\ call = Idle
    /\ SetTables(r.db)
    /\ call' = [Call("insert_input_note", r.err) EXCEPT
                   !.committed = (r.err = "Ok"), !.faulted = (fault # NoFault),
                   !.notes = <<rec.note>>,
                   !.records = IF r.err = "Ok" THEN {rec} ELSE {}]

GetInputNotes(filter) ==
    LET r == get_input_notes_result(input_notes, filter) IN
    /\ call = Idle
    /\ UNCHANGED <<tables, connection>>
    /\ call' = [Call("get_input_notes", r.err) EXCEPT
                   !.notes = <<filter>>, !.records = r.records]

GetInputNoteById(note_id) ==
    LET r == get_input_note_by_id_result(input_notes, note_id) IN
    /\ call = Idle
    /\ UNCHANGED <<tables, connection>>
    /\ call' = [Call("get_input_note_by_id", r.err) EXCEPT
                   !.notes = <<note_id>>, !.id = r.id, !.records = r.records]

GetUnspentInputNoteNullifiers ==
    LET r == get_unspent_input_note_nullifiers_result(input_notes) IN
    /\ call = Idle
    /\ UNCHANGED <<tables, connection>>
    /\ call' = [Call("get_unspent_input_note_nullifiers", r.err) EXCEPT
                   !.records = r.records]

InsertTransactionData(txr, fault) ==
    LET r == insert_transaction_data_result(DB, txr, fault) IN
    /\ call = Idle
    /\ SetTables(r.db)
    /\ call' = [Call("insert_transaction_data", r.err) EXCEPT
                   !.committed = (r.err = "Ok"), !.faulted = (fault # NoFault),
                   !.id = txr.id, !.notes = txr.created_notes]

\* the sync caller: it opens the atomic unit, marks the transactions of the
\* block's notes and commits; an error drops the unit
MarkTransactionsAsCommitted(candidates, note_ids, block_num, fault) ==
    LET m == mark_transactions_as_committed_by_note_id(DB, candidates, note_ids,
                                                       block_num, fault)
        r == EndTransaction(DB, Then(Err(m.db, m.err), commit(m.db, fault)))
    IN /\ call = Idle
       /\ SetTables(r.db)
       /\ call' = [Call("mark_transactions_as_committed_by_note_id", m.err) EXCEPT
                      !.committed = (r.err = "Ok"), !.faulted = (fault # NoFault),
                      !.candidates = candidates,
                      !.notes = note_ids, !.block_num = block_num, !.rows = m.rows]

GetTransactions(filter) ==
    LET r == get_transactions_result(transactions, transaction_scripts, filter) IN
    /\ call = Idle
    /\ UNCHANGED <<tables, connection>>
    /\ call' = [Call("get_transactions", r.err) EXCEPT
                   !.notes = <<filter>>, !.records = r.records]

\* the sync caller applies a block: a committed note of the block and the
\* marking of the transactions of the block's notes, in one atomic unit
SyncBlock(rec, candidates, note_ids, block_num, fault) ==
    LET r == apply_block(DB, rec, candidates, note_ids, block_num, fault) IN
    /\ call = Idle
    /\ SetTables(r.db)
    /\ call' = [Call("apply_block", r.err) EXCEPT
                   !.committed = (r.err = "Ok"), !.faulted = (fault # NoFault),
                   !.candidates = candidates, !.notes = note_ids,
                   !.block_num = block_num, !.rows = r.rows,
                   !.records = {rec}, !.step = r.step]

\* a statement of the store fails in the engine with a rusqlite::Error
RaiseRusqliteError(value) ==
    /\ call = Idle
    /\ UNCHANGED <<tables, connection>>
    /\ call' = [Call("rusqlite::Error", value.kind) EXCEPT !.id = value.payload]

\* the `?` of the store operation converts the rusqlite::Error; the call
\* keeps the error it came from
FromRusqliteError ==
    LET value == [kind |-> call.kind, payload |-> call.id]
        err == StoreErrorFromRusqlite(value)
    IN /\ call.op = "rusqlite::Error"
       /\ UNCHANGED <<tables, connection>>
       /\ call' = [Call("StoreError", err.kind) EXCEPT
                      !.id = err.payload, !.candidates = <<value>>]

\* a store operation fails with a StoreError of its own
RaiseStoreError(value) ==
    /\ call = Idle
    /\ UNCHANGED <<tables, connection>>
    /\ call' = [Call("StoreError", value.kind) EXCEPT !.id = value.payload]

\* the data store of the transaction executor converts the StoreError; the
\* call keeps the error it came from
IntoDataStoreError ==
    LET value == [kind |-> call.kind, payload |-> call.id]
        err == DataStoreErrorFromStoreError(value)
    IN /\ call.op = "StoreError"
       /\ UNCHANGED <<tables, connection>>
       /\ call' = [Call("DataStoreError", err.kind) EXCEPT
                      !.id = err.payload, !.candidates = <<value>>]

\* Store::new on the database file, by a client that has no handle
StoreNew(fault) ==
    LET r == Store_new(File, fault) IN
    /\ call = Idle
    /\ store = "none"
    /\ user_version' = r.file.user_version
    /\ store' = r.store
    /\ accounts' = r.file.db.accounts
    /\ input_notes' = r.file.db.input_notes
    /\ transactions' = r.file.db.transactions
    /\ transaction_scripts' = r.file.db.transaction_scripts
    /\ call' = [Call("Store::new", r.err) EXCEPT
                   !.committed = (r.err = "Ok"), !.faulted = (fault # NoFault)]

\* the client drops its handle: the connection is closed
DropStore ==
    /\ call = Idle
    /\ store = "open"
    /\ store' = "none"
    /\ UNCHANGED <<tables, call, user_version>>

\* the caller takes the result: the store is between two calls again
Return ==
    /\ call # Idle
    /\ call' = Idle
    /\ UNCHANGED <<tables, connection>>

InsertFaults == {f \in Faults : f[1] # "update"}

NoteFaults == {NoFault, <<"begin", 0>>, <<"note", 1>>, <<"commit", 0>>}

MarkFaults == {f \in Faults : f[1] \in {"none", "update", "commit"}}

Next ==
    \/ \E a \in AccountIds, b \in 0..MaxBalance : InsertAccount(a, b)
    \/ \E rec \in ShallowNoteRecords, f \in NoteFaults : InsertInputNote(rec, f)
    \/ \E txr \in TransactionResults, f \in InsertFaults : InsertTransactionData(txr, f)
    \/ \E c \in SeqsUpTo(TransactionRecords, MaxCandidates), ids \in NoteLists,
          b \in BlockNums, f \in MarkFaults : MarkTransactionsAsCommitted(c, ids, b, f)
    \/ \E filter \in TransactionFilters : GetTransactions(filter)
    \/ Return

Spec == Init /\ [][Next]_vars

\* the note store alone: every input note record, every read of the notes
NextNotes ==
    \/ \E rec \in InputNoteRecords, f \in NoteFaults : InsertInputNote(rec, f)
    \/ \E filter \in InputNoteFilters : GetInputNotes(filter)
    \/ \E note_id \in NoteIds : GetInputNoteById(note_id)
    \/ GetUnspentInputNoteNullifiers
    \/ Return

SpecNotes == Init /\ [][NextNotes]_vars

\* the errors of the store and their conversions
NextErrors ==
    \/ \E value \in RusqliteErrors : RaiseRusqliteError(value)
    \/ FromRusqliteError
    \/ \E value \in StoreErrors : RaiseStoreError(value)
    \/ IntoDataStoreError
    \/ Return

SpecErrors == Init /\ [][NextErrors]_vars

\* the rows a transactions table can hold: the rows the store writes, with
\* or without a commit height, and these rows with a null script_inputs
StoredTransactionRows ==
    {[TransactionRow(serialize_transaction_data(txr)) EXCEPT
          !.script_inputs = IF keep THEN @ ELSE None, !.commit_height = h] :
        txr \in {x \in TransactionResults : x.created_notes = <<>>},
        keep \in BOOLEAN, h \in {None} \cup {Some(b) : b \in BlockNums}}

\* the rows a transaction_scripts table can hold
StoredScriptRows == {[script_hash |-> h, program |-> TxScript(h, 1).program] : h \in ScriptHashes}

\* the rows an input_notes table can hold: the rows the store writes, and
\* these rows with a nullifier that is not the text of a digest
StoredNoteRows ==
    {[serialize_input_note(rec).row EXCEPT
          !.nullifier = IF keep THEN @ ELSE <<"zz", @[2]>>] :
        rec \in ShallowNoteRecords, keep \in BOOLEAN}

\* Store::new on a database file of any content: written by the store, by
\* another program, or damaged
InitReads ==
    /\ accounts = [a \in AccountIds |-> None]
    /\ input_notes \in {{}} \cup {{row} : row \in StoredNoteRows}
    /\ transactions \in {{}} \cup {{row} : row \in StoredTransactionRows}
    /\ transaction_scripts \in {<<>>} \cup {<<row>> : row \in StoredScriptRows}
    /\ call = Idle
    /\ user_version = Len(Migrations)
    /\ store = "open"

\* the reads of the store
NextReads ==
    \/ \E filter \in TransactionFilters : GetTransactions(filter)
    \/ \E filter \in InputNoteFilters : GetInputNotes(filter)
    \/ \E note_id \in NoteIds : GetInputNoteById(note_id)
    \/ GetUnspentInputNoteNullifiers
    \/ Return

SpecReads == InitReads /\ [][NextReads]_vars

\* a database file that no client has opened: a new file, a file of this
\* version of the store, or a file of a later version
InitOpen ==
    /\ accounts = [a \in AccountIds |-> None]
    /\ input_notes = {}
    /\ transactions = {}
    /\ transaction_scripts = <<>>
    /\ call = Idle
    /\ user_version \in 0..(Len(Migrations) + 1)
    /\ store = "none"

\* the store is opened, written and read through its handle, and dropped
NextOpen ==
    \/ \E f \in OpenFaults : StoreNew(f)
    \/ DropStore
    \/ store = "open" /\ \E rec \in ShallowNoteRecords, f \in NoteFaults : InsertInputNote(rec, f)
    \/ store = "open" /\ \E filter \in InputNoteFilters : GetInputNotes(filter)
    \/ Return

SpecOpen == InitOpen /\ [][NextOpen]_vars

\* the notes a sync finds in a block: records with an inclusion proof
BlockNoteRecords(block_num) ==
    {rec \in ShallowNoteRecords :
        IsSome(rec.inclusion_proof) /\ Unwrap(rec.inclusion_proof).block_num = block_num}

SyncFaults == {NoFault, <<"begin", 0>>, <<"note", 1>>, <<"commit", 0>>}
              \cup {<<"update", k>> : k \in 1..MaxCandidates}

\* the transactions without script and without created note
PlainTransactionResults ==
    {x \in TransactionResults : x.created_notes = <<>> /\ x.transaction_script = None}

\* transactions are executed and persisted, and blocks are applied by the
\* sync caller: the note it inserts is one of the notes of the block
NextSync ==
    \/ \E a \in AccountIds, b \in 0..MaxBalance : InsertAccount(a, b)
    \/ \E txr \in PlainTransactionResults : InsertTransactionData(txr, NoFault)
    \/ \E b \in BlockNums, c \in SeqsUpTo(TransactionRecords, MaxCandidates),
          ids \in NoteLists, f \in SyncFaults :
          \E rec \in BlockNoteRecords(b) :
              Contains(ids, NoteId(rec.note)) /\ SyncBlock(rec, c, ids, b, f)
    \/ Return

SpecSync == Init /\ [][NextSync]_vars

(***************************************************************************)
(* Properties.  An action property reads the tables before the call         *)
(* (unprimed), the tables after it (primed) and the call that returned      *)
(* (call').                                                                 *)
(***************************************************************************)
InsertReturned == call'.op = "insert_transaction_data"

MarkReturned == call'.op = "mark_transactions_as_committed_by_note_id"

\* the account of the inserted transaction, as persisted before the call
AccountBefore == accounts[TxAccountId(call'.id)]

\* the candidate list of the call names the row with an output note that is
\* in the note-id list of the call
Selected(row, c) ==
    \E i \in 1..Len(c.candidates) :
        /\ c.candidates[i].id = row.id
        /\ \E n \in c.candidates[i].output_notes : Contains(c.notes, n)

\* C1: a call of insert_transaction_data that returns an error, whatever the
\* step that failed, leaves the account, note, transaction and script rows
\* exactly as they were before the call.
C1_AllOrNothing ==
    [][(InsertReturned /\ call'.kind # "Ok") => tables' = tables]_vars

\* the note loop failed on a note id that is already stored, after the
\* transaction row and the account were written in the unit
C1_Witness ==
    /\ call.op = "insert_transaction_data"
    /\ call.kind = "QueryError"
    /\ ~call.faulted
    /\ Len(call.notes) = 2

\* C2: when insert_transaction_data returns Ok, the persisted storage, vault
\* and record of the transaction's account are the previous ones with the
\* delta applied, and they appear together with the new transaction row and
\* the new notes; a call that does not return Ok shows none of them.
C2_AccountUpdatedWithRecordAndNotes ==
    [][InsertReturned =>
        IF call'.kind = "Ok"
        THEN /\ IsSome(AccountBefore)
             /\ accounts'[TxAccountId(call'.id)] =
                    Some([storage |-> Unwrap(AccountBefore).storage + TxAccountDelta(call'.id),
                          vault |-> Unwrap(AccountBefore).vault + TxAccountDelta(call'.id),
                          record |-> Unwrap(AccountBefore).record + TxAccountDelta(call'.id)])
             /\ \A o \in AccountIds \ {TxAccountId(call'.id)} : accounts'[o] = accounts[o]
             /\ \E row \in transactions' \ transactions : row.id = call'.id
             /\ \A i \in 1..Len(call'.notes) :
                    \E row \in input_notes' \ input_notes : row.note_id = call'.notes[i]
        ELSE tables' = tables]_vars

C2_Witness ==
    /\ call.op = "insert_transaction_data"
    /\ call.kind = "Ok"
    /\ Len(call.notes) >= 1
    /\ \E row \in transactions : row.id = call.id
    /\ accounts[TxAccountId(call.id)] = Some(PersistedAccount(1))

\* C3: the row of a transaction that insert_transaction_data has just
\* persisted has a null commit_height, and get_transactions (All or
\* Uncomitted) on the tables after the call returns its record with status
\* Pending, whatever the block number of the transaction result.
C3_InsertedPending ==
    [][(InsertReturned /\ call'.kind = "Ok") =>
        /\ \A row \in transactions' : row.id = call'.id => row.commit_height = None
        /\ \A filter \in TransactionFilters :
              \E rec \in get_transactions_result(transactions', transaction_scripts',
                                                 filter).records :
                  rec.id = call'.id /\ rec.transaction_status = <<"Pending">>]_vars

C3_Witness ==
    /\ call.op = "insert_transaction_data"
    /\ call.kind = "Ok"
    /\ \E row \in transactions :
          row.id = call.id /\ row.block_num > 1 /\ row.commit_height = None

\* C4: after a successful insert_transaction_data the note table is the
\* table of before plus one row for each created note, each with no
\* inclusion proof and status pending; no other row is added, removed or
\* changed.
C4_CreatedNotesPending ==
    [][(InsertReturned /\ call'.kind = "Ok") =>
        /\ input_notes \subseteq input_notes'
        /\ {row.note_id : row \in input_notes' \ input_notes} =
               {call'.notes[i] : i \in 1..Len(call'.notes)}
        /\ Cardinality(input_notes' \ input_notes) = Len(call'.notes)
        /\ \A row \in input_notes' \ input_notes :
               /\ row.inclusion_proof = None
               /\ row.status = "pending"
               /\ row.note = row.note_id
        /\ \A row \in input_notes : \A i \in 1..Len(call'.notes) :
               row.note_id # call'.notes[i]]_vars

C4_Witness ==
    /\ call.op = "insert_transaction_data"
    /\ call.kind = "Ok"
    /\ Len(call.notes) = 2
    /\ \A i \in 1..2 : \E row \in input_notes :
          row.note_id = call.notes[i] /\ row.status = "pending"

ScriptsUnique ==
    \A i, j \in 1..Len(transaction_scripts) :
        transaction_scripts[i].script_hash = transaction_scripts[j].script_hash => i = j

\* nothing but the script could make the insert fail: the account is
\* persisted, the delta applies, the transaction id and the created notes
\* are new and the engine does not fail
InsertCanSucceed ==
    /\ ~call'.faulted
    /\ IsSome(AccountBefore)
    /\ Unwrap(AccountBefore).record + TxAccountDelta(call'.id) \in 0..MaxBalance
    /\ \A row \in transactions : row.id # call'.id
    /\ \A row \in input_notes : \A i \in 1..Len(call'.notes) : row.note_id # call'.notes[i]

\* the script rows of hash h, as positions of a script table
ScriptRows(scripts, h) == {i \in 1..Len(scripts) : scripts[i].script_hash = h}

\* C5: the transaction_scripts table never holds two rows of one hash;
\* inserting a transaction whose script hash is already stored succeeds and
\* leaves the script table as it is, and every transaction row that names
\* the hash is returned by get_transactions with the script of that one row.
C5_ScriptDedup ==
    /\ []ScriptsUnique
    /\ [][InsertReturned =>
            /\ InsertCanSucceed => call'.kind = "Ok"
            /\ call'.kind = "Ok" =>
                 \A row \in transactions' : \A h \in ScriptHashes :
                    (row.id = call'.id /\ row.script_hash = Some(h)) =>
                       /\ ScriptRows(transaction_scripts, h) # {} =>
                             transaction_scripts' = transaction_scripts
                       /\ Cardinality(ScriptRows(transaction_scripts', h)) = 1
                       /\ \A other \in transactions' :
                             other.script_hash = Some(h) =>
                                \E rec \in get_transactions_result(
                                               transactions', transaction_scripts', "All").records :
                                    /\ rec.id = other.id
                                    /\ IsSome(rec.transaction_script)
                                    /\ Unwrap(rec.transaction_script).hash = h
                                    /\ \E i \in ScriptRows(transaction_scripts', h) :
                                          Unwrap(rec.transaction_script).program =
                                              transaction_scripts'[i].program]_vars

\* a second transaction with the stored script hash has been inserted
C5_Witness ==
    /\ call.op = "insert_transaction_data"
    /\ call.kind = "Ok"
    /\ Len(transaction_scripts) = 1
    /\ \E r1, r2 \in transactions :
          /\ r1.id = call.id
          /\ r2.id # call.id
          /\ IsSome(r1.script_hash)
          /\ r1.script_hash = r2.script_hash

\* C6: insert_transaction_data for an account id with no persisted account
\* returns AccountDataNotFound and changes no table, also when a write of
\* the call would have failed: no write is reached.
C6_AccountNotFound ==
    [][(InsertReturned /\ AccountBefore = None) =>
        (call'.kind = "AccountDataNotFound" /\ tables' = tables)]_vars

C6_Witness ==
    /\ call.op = "insert_transaction_data"
    /\ call.kind = "AccountDataNotFound"
    /\ call.faulted
    /\ accounts[TxAccountId(call.id)] = None

\* C7: insert_transaction_data whose delta does not apply to the persisted
\* account returns AccountError and changes no table, also when the opening
\* of the atomic unit or a write would have failed: neither is reached.
C7_InvalidDelta ==
    [][(/\ InsertReturned
        /\ IsSome(AccountBefore)
        /\ Unwrap(AccountBefore).record + TxAccountDelta(call'.id) \notin 0..MaxBalance) =>
        (call'.kind = "AccountError" /\ tables' = tables)]_vars

C7_Witness ==
    /\ call.op = "insert_transaction_data"
    /\ call.kind = "AccountError"
    /\ call.faulted
    /\ IsSome(accounts[TxAccountId(call.id)])

\* C8: a call of mark_transactions_as_committed_by_note_id that returns Ok
\* and whose unit is committed sets commit_height to the block number in
\* the row of every candidate with an output note in the note-id list, and
\* leaves every other row, and every other column, as it was.
C8_MarkSelected ==
    [][(MarkReturned /\ call'.kind = "Ok" /\ call'.committed) =>
        /\ transactions' =
              {[row EXCEPT !.commit_height =
                    IF Selected(row, call') THEN Some(call'.block_num) ELSE @] :
                 row \in transactions}
        /\ <<accounts, input_notes, transaction_scripts>>' =
              <<accounts, input_notes, transaction_scripts>>]_vars

\* one transaction was marked and another one stays pending
C8_Witness ==
    /\ call.op = "mark_transactions_as_committed_by_note_id"
    /\ call.kind = "Ok"
    /\ call.committed
    /\ \E r1, r2 \in transactions :
          /\ Selected(r1, call)
          /\ r1.commit_height = Some(call.block_num)
          /\ ~Selected(r2, call)
          /\ r2.commit_height = None
          /\ \E i \in 1..Len(call.candidates) : call.candidates[i].id = r2.id

\* C9: the count mark_transactions_as_committed_by_note_id returns is the
\* number of distinct persisted transactions whose commit_height the call
\* set, for every candidate list and note-id list.
C9_CountIsDistinctTransactions ==
    [][(MarkReturned /\ call'.kind = "Ok" /\ call'.committed) =>
        call'.rows = Cardinality({row \in transactions : Selected(row, call')})]_vars

\* C10: a transaction row starts with a null commit_height; it gets a
\* commit_height only in a call of mark_transactions_as_committed_by_note_id
\* whose note-id list holds one of its output notes, and then the block
\* number of the call; a row with a commit_height never goes back to null.
C10_Lifecycle ==
    [][\A new \in transactions' :
          /\ (\A old \in transactions : old.id # new.id) => new.commit_height = None
          /\ \A old \in transactions :
                old.id = new.id =>
                   /\ (old.commit_height = None /\ new.commit_height # None) =>
                         /\ MarkReturned
                         /\ \E n \in old.output_notes : Contains(call'.notes, n)
                         /\ new.commit_height = Some(call'.block_num)
                   /\ old.commit_height # None => new.commit_height # None]_vars

\* a pending transaction has just become committed
C10_Witness ==
    /\ call.op = "mark_transactions_as_committed_by_note_id"
    /\ call.committed
    /\ call.rows = 1
    /\ \E row \in transactions :
          /\ Selected(row, call)
          /\ row.commit_height = Some(call.block_num)
          /\ row.block_num # call.block_num

(***************************************************************************)
(* Properties of the note store.  A state predicate reads the call that     *)
(* has just returned (call) and the tables it left; a read leaves the       *)
(* tables as they were when it ran.                                         *)
(***************************************************************************)
\* the persisted status an InputNoteFilter selects; All selects every row
FilterSelects(filter, row) ==
    CASE filter = "All" -> TRUE
      [] filter = "Committed" -> row.status = "committed"
      [] filter = "Consumed" -> row.status = "consumed"
      [] filter = "Pending" -> row.status = "pending"

\* the record holds the note and the persisted proof of the row
RecordOfRow(rec, row) ==
    /\ NoteId(rec.note) = row.note_id
    /\ rec.note = row.note
    /\ rec.inclusion_proof = row.inclusion_proof

\* C11: get_input_notes returns Ok and exactly one record for each stored
\* row whose persisted status is the one its filter names (every row for
\* All): every such row has its record, and every record is one of them.
C11_FilterCorrectness ==
    call.op = "get_input_notes" =>
        /\ call.kind = "Ok"
        /\ \A row \in input_notes :
              FilterSelects(call.notes[1], row) =>
                 \E rec \in call.records : RecordOfRow(rec, row)
        /\ \A rec \in call.records :
              \E row \in input_notes :
                 FilterSelects(call.notes[1], row) /\ RecordOfRow(rec, row)
        /\ Cardinality(call.records) =
              Cardinality({row \in input_notes : FilterSelects(call.notes[1], row)})

\* Pending was asked of a store with a pending and a committed note
C11_Witness ==
    /\ call.op = "get_input_notes"
    /\ call.notes = <<"Pending">>
    /\ Cardinality(call.records) = 1
    /\ \E r1, r2 \in input_notes : r1.status = "pending" /\ r2.status = "committed"

\* C12: get_input_note_by_id returns Ok and the record of the row stored
\* under the requested note id when there is one, and otherwise
\* InputNoteNotFound with the requested id and no record.
C12_ByIdOrNotFound ==
    call.op = "get_input_note_by_id" =>
        IF \E row \in input_notes : row.note_id = call.notes[1]
        THEN /\ call.kind = "Ok"
             /\ Cardinality(call.records) = 1
             /\ \A rec \in call.records :
                   /\ NoteId(rec.note) = call.notes[1]
                   /\ \E row \in input_notes :
                         row.note_id = call.notes[1] /\ RecordOfRow(rec, row)
        ELSE /\ call.kind = "InputNoteNotFound"
             /\ call.id = call.notes[1]
             /\ call.records = {}

\* the requested note was found among two stored notes
C12_Witness ==
    /\ call.op = "get_input_note_by_id"
    /\ call.kind = "Ok"
    /\ Cardinality(input_notes) = 2
    /\ \E rec \in call.records : NoteId(rec.note) = call.notes[1]

NoteIdsUnique ==
    \A r1, r2 \in input_notes : r1.note_id = r2.note_id => r1 = r2

InsertNoteReturned == call'.op = "insert_input_note"

C14_UnspentNullifiers ==
    call.op = "get_unspent_input_note_nullifiers" =>
        /\ call.kind = "Ok"
        /\ call.records = {Nullifier(row.note) : row \in {r \in input_notes : r.status = "committed"}}
        /\ \A row \in input_notes :
              row.status # "committed" => Nullifier(row.note) \notin call.records

\* one committed and one pending note are stored
C14_Witness ==
    /\ call.op = "get_unspent_input_note_nullifiers"
    /\ Cardinality(call.records) = 1
    /\ \E r1, r2 \in input_notes : r1.status = "pending" /\ r2.status = "committed"

\* the record that a call of insert_input_note has just persisted
JustInserted(rec) ==
    /\ call.op = "insert_input_note"
    /\ call.kind = "Ok"
    /\ rec \in call.records

\* the record get_input_note_by_id returns now for the note of rec
ReadBack(rec) == get_input_note_by_id_result(input_notes, NoteId(rec.note))

\* C15: after insert_input_note has persisted a record with no inclusion
\* proof, get_input_note_by_id of its note id returns Ok and a record with
\* the same note and no inclusion proof, and the persisted status of the
\* note is pending.
C15_RoundTripNoProof ==
    \A rec \in call.records :
        (JustInserted(rec) /\ rec.inclusion_proof = None) =>
            /\ ReadBack(rec).err = "Ok"
            /\ ReadBack(rec).records = {[note |-> rec.note, inclusion_proof |-> None]}
            /\ \A row \in input_notes :
                  row.note_id = NoteId(rec.note) => row.status = "pending"

C15_Witness ==
    /\ call.op = "insert_input_note"
    /\ call.kind = "Ok"
    /\ \E rec \in call.records : rec.inclusion_proof = None /\ rec.note = MaxNote
    /\ \E row \in input_notes : row.note_id = NoteId(MaxNote) /\ row.status = "pending"

TransactionSelected(filter, row) == filter = "All" \/ row.commit_height = None

\* C17: get_transactions returns Ok and one record for each persisted row
\* with a null commit_height (Uncomitted) or for each persisted row (All),
\* and no other record; the status of a record is Pending when the
\* commit_height of its row is null and otherwise Committed with that
\* height; the record has a script exactly when the row has a script hash,
\* and then the script has this hash, the program of the script row of the
\* hash and the script inputs of the row.
C17_GetTransactions ==
    call.op = "get_transactions" =>
        /\ call.kind = "Ok"
        /\ {rec.id : rec \in call.records} =
              {row.id : row \in {r \in transactions : TransactionSelected(call.notes[1], r)}}
        /\ Cardinality(call.records) =
              Cardinality({r \in transactions : TransactionSelected(call.notes[1], r)})
        /\ \A rec \in call.records : \A row \in transactions :
              row.id = rec.id =>
                 /\ rec.transaction_status =
                       IF row.commit_height = None THEN <<"Pending">>
                       ELSE <<"Committed", Unwrap(row.commit_height)>>
                 /\ IsSome(rec.transaction_script) <=> IsSome(row.script_hash)
                 /\ IsSome(row.script_hash) =>
                       /\ Unwrap(rec.transaction_script).hash = Unwrap(row.script_hash)
                       /\ Unwrap(rec.transaction_script).inputs = Unwrap(row.script_inputs)
                       /\ \E i \in ScriptRows(transaction_scripts, Unwrap(row.script_hash)) :
                             Unwrap(rec.transaction_script).program =
                                 transaction_scripts[i].program

\* Uncomitted was asked of a store with a committed transaction and a
\* pending transaction that has a script
C17_Witness ==
    /\ call.op = "get_transactions"
    /\ call.notes = <<"Uncomitted">>
    /\ \E rec \in call.records :
          IsSome(rec.transaction_script) /\ rec.transaction_status = <<"Pending">>
    /\ \E row \in transactions : row.commit_height # None
    /\ Cardinality(call.records) = 1

\* C18: the input_notes column of every persisted transaction is the list
\* of the nullifiers of the input notes of the transaction, in their order.
C18_InputNotesAreNullifiers ==
    \A row \in transactions :
        row.input_notes =
            [i \in 1..Len(TxInputNotes(row.id)) |-> Nullifier(TxInputNotes(row.id)[i])]

(***************************************************************************)
(* Properties of the errors.                                                *)
(***************************************************************************)
\* the StoreError that the DataStoreError of the call was converted from
ConvertedFrom == call.candidates[1]

\* C19: the DataStoreError of a StoreError is AccountNotFound, BlockNotFound
\* or NoteNotFound with the payload of the StoreError when the StoreError is
\* AccountDataNotFound, BlockHeaderNotFound or InputNoteNotFound, and for
\* every other kind of StoreError it is InternalError.
C19_DataStoreErrorMapping ==
    call.op = "DataStoreError" =>
        CASE ConvertedFrom.kind = "AccountDataNotFound" ->
                call.kind = "AccountNotFound" /\ call.id = ConvertedFrom.payload
          [] ConvertedFrom.kind = "BlockHeaderNotFound" ->
                call.kind = "BlockNotFound" /\ call.id = ConvertedFrom.payload
          [] ConvertedFrom.kind = "InputNoteNotFound" ->
                call.kind = "NoteNotFound" /\ call.id = ConvertedFrom.payload
          [] OTHER -> call.kind = "InternalError"

\* a not-found error of a note was converted with its note id
C19_Witness ==
    /\ call.op = "DataStoreError"
    /\ call.kind = "NoteNotFound"
    /\ call.id = MaxPayload
    /\ ConvertedFrom.kind = "InputNoteNotFound"

\* C20: a call of insert_input_note or insert_transaction_data in which the
\* engine was made to fail, and which ends with a StoreError of the engine,
\* ends with DatabaseError.
C20_EngineFaultIsDatabaseError ==
    (/\ call.op \in {"insert_input_note", "insert_transaction_data"}
     /\ call.faulted
     /\ call.kind \notin {"Ok", "Panic", "AccountDataNotFound", "AccountError"}) =>
        call.kind = "DatabaseError"

(***************************************************************************)
(* Properties of the store over every content of its tables.                *)
(***************************************************************************)
\* C21: whatever the tables hold, a call of get_transactions,
\* get_input_notes, get_input_note_by_id or
\* get_unspent_input_note_nullifiers ends by returning Ok or a StoreError:
\* it does not abort the process.
C21_ReadsNeverAbort ==
    call.op \in {"get_transactions", "get_input_notes", "get_input_note_by_id",
                 "get_unspent_input_note_nullifiers"} =>
        call.kind # "Panic"

(***************************************************************************)
(* Properties of opening the store.                                         *)
(***************************************************************************)
OpenReturned == call'.op = "Store::new"

\* C22: a call of Store::new produces a handle exactly when it returns Ok,
\* and then every migration is applied (the file has the version of the
\* last migration); on a file that already has this version the call
\* changes neither the version nor any table, and succeeds unless the
\* engine fails; a call that returns an error leaves the version and the
\* tables as they were and produces no handle.
C22_OpenIdempotent ==
    [][OpenReturned =>
        /\ (call'.kind = "Ok") <=> (store' = "open")
        /\ call'.kind = "Ok" => user_version' = Len(Migrations)
        /\ user_version = Len(Migrations) =>
              /\ user_version' = user_version
              /\ tables' = tables
              /\ ~call'.faulted => call'.kind = "Ok"
        /\ call'.kind # "Ok" =>
              /\ store' = "none"
              /\ user_version' = user_version
              /\ tables' = tables]_vars

\* a store that holds a note was opened again
C22_Witness ==
    /\ call.op = "Store::new"
    /\ call.kind = "Ok"
    /\ store = "open"
    /\ input_notes # {}

(***************************************************************************)
(* Properties of the persisted rows over the operations of the store.       *)
(***************************************************************************)
\* the persisted row of the note of a record
RowsOfRecord(rec) == {row \in input_notes : row.note_id = NoteId(rec.note)}

\* C23: a persisted note has status committed exactly when it has a
\* persisted inclusion proof and status pending exactly when it has none;
\* the row that insert_input_note persisted has a proof exactly when the
\* inserted record has one; no row has status consumed, and
\* get_input_notes(Consumed) returns Ok and no record.
C23_NoteStatus ==
    /\ \A row \in input_notes :
          /\ row.status = "committed" <=> IsSome(row.inclusion_proof)
          /\ row.status = "pending" <=> ~IsSome(row.inclusion_proof)
          /\ row.status # "consumed"
    /\ \A rec \in call.records :
          JustInserted(rec) =>
              /\ RowsOfRecord(rec) # {}
              /\ \A row \in RowsOfRecord(rec) :
                    /\ row.status = "committed" <=> IsSome(rec.inclusion_proof)
                    /\ row.status = "pending" <=> ~IsSome(rec.inclusion_proof)
    /\ get_input_notes_result(input_notes, "Consumed") = [err |-> "Ok", records |-> {}]

\* a record with a proof was just inserted into a store that holds a note
\* without proof
C23_Witness ==
    /\ \E rec \in call.records : JustInserted(rec) /\ IsSome(rec.inclusion_proof)
    /\ \E row \in input_notes : row.status = "pending"
    /\ \E row \in input_notes : row.status = "committed"

\* the new row is the old one in every column but commit_height
SameButCommitHeight(old, new) == new = [old EXCEPT !.commit_height = new.commit_height]

\* C24: in every step of the store every note row stays in the table as it
\* is, and every transaction row stays in the table with every column but
\* commit_height as it is; only mark_transactions_as_committed_by_note_id
\* changes a commit_height.
C24_AppendOnly ==
    [][/\ input_notes \subseteq input_notes'
       /\ \A old \in transactions : \E new \in transactions' : SameButCommitHeight(old, new)
       /\ ~MarkReturned => transactions \subseteq transactions']_vars

\* a mark call has changed the commit_height of a row of a store that holds
\* notes and a second transaction
C24_Witness ==
    /\ call.op = "mark_transactions_as_committed_by_note_id"
    /\ call.committed
    /\ call.rows > 0
    /\ input_notes # {}
    /\ \E r1, r2 \in transactions :
          /\ r1.commit_height = Some(call.block_num)
          /\ r2.commit_height = None

\* C26: a persisted transaction has a script hash exactly when it has script
\* inputs, and the transaction_scripts table has a row for every script hash
\* of a persisted transaction; get_transactions returns Ok on the tables.
C26_ScriptIntegrity ==
    /\ \A row \in transactions :
          /\ IsSome(row.script_hash) <=> IsSome(row.script_inputs)
          /\ IsSome(row.script_hash) =>
                \E i \in 1..Len(transaction_scripts) :
                    transaction_scripts[i].script_hash = Unwrap(row.script_hash)
    /\ \A filter \in TransactionFilters :
          get_transactions_result(transactions, transaction_scripts, filter).err = "Ok"
    /\ call.op = "get_transactions" => call.kind = "Ok"

\* get_transactions has returned the script of a transaction that a mark
\* call has committed, from a store with a transaction without script
C26_Witness ==
    /\ call.op = "get_transactions"
    /\ call.kind = "Ok"
    /\ \E rec \in call.records :
          /\ IsSome(rec.transaction_script)
          /\ rec.transaction_status # <<"Pending">>
    /\ \E row \in transactions : row.script_hash = None

\* C27: a call of mark_transactions_as_committed_by_note_id with a block
\* number other than the commit_height h of a persisted transaction that
\* the candidate list and the note-id list select leaves the commit_height
\* of that transaction at h, and returns the count 0 when every transaction
\* it selects has such a commit_height already.
C27_CommitHeightWriteOnce ==
    [][(MarkReturned /\ call'.kind = "Ok" /\ call'.committed) =>
        /\ \A old \in transactions :
              (/\ Selected(old, call')
               /\ IsSome(old.commit_height)
               /\ old.commit_height # Some(call'.block_num)) => old \in transactions'
        /\ (\A old \in transactions :
                Selected(old, call') =>
                    (IsSome(old.commit_height) /\ old.commit_height # Some(call'.block_num))) =>
              call'.rows = 0]_vars

(***************************************************************************)
(* Properties of marking inside the atomic unit of the sync caller.         *)
(***************************************************************************)
BlockApplied == call'.op = "apply_block"

\* the row the unit inserts for the note of the block
BlockNoteRow(c) == {serialize_input_note(rec).row : rec \in c.records}

\* C25: when the sync caller marks transactions inside its atomic unit, an
\* update that fails makes the call return the engine's error, and a unit
\* that is not committed leaves every table, every commit_height included,
\* as it was; a committed unit shows the caller's note row and the
\* commit_height of every selected transaction together, and no
\* commit_height changes without the caller's note row being inserted.
C25_MarkInsideCallersUnit ==
    [][BlockApplied =>
        /\ call'.step[1] = "mark" => (call'.kind = "DatabaseError" /\ ~call'.committed)
        /\ ~call'.committed => tables' = tables
        /\ call'.committed =>
              /\ input_notes' = input_notes \cup BlockNoteRow(call')
              /\ input_notes' # input_notes
              /\ transactions' =
                    {[row EXCEPT !.commit_height =
                          IF Selected(row, call') THEN Some(call'.block_num) ELSE @] :
                       row \in transactions}
        /\ transactions' # transactions => input_notes' # input_notes]_vars

\* the second update of a mark call failed after the first one and the note
\* insert were done in the unit: both selected transactions are pending and
\* the note of the block is not stored
C25_Witness ==
    /\ call.op = "apply_block"
    /\ call.step = <<"mark", MaxCandidates>>
    /\ ~call.committed
    /\ Len(call.candidates) = MaxCandidates
    /\ \A i \in 1..Len(call.candidates) :
          \E row \in transactions :
              /\ row.id = call.candidates[i].id
              /\ Selected(row, call)
              /\ row.commit_height = None
    /\ \A rec \in call.records : RowsOfRecord(rec) = {}

====
